---- MODULE Spec2Model ----
(***************************************************************************)
(* Model of the Django portfolio website repository:                       *)
(*   - resize_portfolio_images.py : resize_image, process_portfolio_images *)
(*     and main (the batch image resizer);                                 *)
(*   - home/views.py : the page views, of which contact writes one record. *)
(*                                                                         *)
(* Three specifications share the module:                                  *)
(*   SpecResize  - one call of resize_image, step by step;                 *)
(*   SpecBatch   - runs of main / process_portfolio_images on a directory; *)
(*   SpecContact - requests served by the views.                           *)
(***************************************************************************)
EXTENDS Integers, Sequences, FiniteSets, TLC

VARIABLES
    \* ---- one call of resize_image ----
    rpc,        \* position in resize_image
    rin,        \* the arguments and the file behind input_path
    img,        \* the opened image (width, height, mode)
    branch,     \* which arm of the aspect-ratio test ran
    resized,    \* the image returned by img.resize
    box,        \* the crop box (left, top, right, bottom) / paste offset
    final_img,  \* the image handed to save
    rout,       \* the file written at output_path
    \* ---- main / process_portfolio_images ----
    pc,         \* position in main
    args,       \* parsed command line
    fs,         \* the file system below portfolio_dir: path -> node
    todo,       \* entries of os.listdir not yet visited by the for loop
    logged,     \* files for which resize_image printed an error in this run
    touched,    \* paths written or created by the current run
    runs,       \* number of runs of main started
    \* ---- views ----
    db,         \* rows of the Contact table, in insertion order
    request,    \* the request being answered
    response,   \* what the view returned
    served      \* number of requests served

vars == <<rpc, rin, img, branch, resized, box, final_img, rout,
          pc, args, fs, todo, logged, touched, runs,
          db, request, response, served>>

resizeVars == <<rpc, rin, img, branch, resized, box, final_img, rout>>
batchVars == <<pc, args, fs, todo, logged, touched, runs>>
viewVars == <<db, request, response, served>>

None == [none |-> TRUE]

(***************************************************************************)
(* Bounds                                                                  *)
(***************************************************************************)
MaxDim == 24        \* source images are 1..MaxDim pixels wide and high
MaxRuns == 2        \* runs of main per behaviour
MaxVer == 2         \* versions a source file's content goes through
MaxRequests == 2    \* requests served per behaviour

(***************************************************************************)
(* resize_image                                                            *)
(***************************************************************************)
preview_size == <<800, 600>>
slider_size == <<1200, 800>>

\* Pillow image modes a source file can have.
Modes == {"RGB", "RGBA", "LA", "P", "L", "1", "CMYK", "I", "F"}

\* str.lower() on the extensions that occur.
Lower(ext) ==
    CASE ext = ".JPG" -> ".jpg"
      [] ext = ".JPEG" -> ".jpeg"
      [] ext = ".PNG" -> ".png"
      [] OTHER -> ext

\* Lines 29-30: only RGBA, LA and P are converted.
ConvertMode(mode) == IF mode \in {"RGBA", "LA", "P"} THEN "RGB" ELSE mode

RECURSIVE GCD(_, _)
GCD(a, b) == IF b = 0 THEN a ELSE GCD(b, a % b)

RECURSIVE IsPow2(_)
IsPow2(n) == IF n = 1 THEN TRUE ELSE IF n % 2 # 0 THEN FALSE ELSE IsPow2(n \div 2)

\* img_ratio = img.width / img.height is a binary double: it equals w/h
\* exactly iff the reduced denominator is a power of two.
RatioExact(w, h) == IsPow2(h \div GCD(w, h))

\* img_ratio > target_ratio (both doubles, both correctly rounded quotients,
\* so the comparison agrees with the comparison of the fractions).
IsWider(w, h, target_size) == w * target_size[2] > h * target_size[1]

SameRatio(w, h, target_size) == w * target_size[2] = h * target_size[1]

\* int(k * img_ratio) and int(k / img_ratio): the values int() can return
\* for the double computed from num/den = k*w/h resp. k*h/w.  When the
\* quotient is not an integer, the rounding error is far smaller than its
\* distance to the next integer and int() is the floor.  When the quotient
\* is an integer and img_ratio was rounded, the double may fall just below
\* it and int() then returns one less (int(600 * (22/15)) = 879).
IntOfDouble(num, den, exact) ==
    IF num % den = 0 /\ ~exact
    THEN {num \div den - 1, num \div den}
    ELSE {num \div den}

\* Lines 37-62: the sizes passed to img.resize in crop mode.
CropNewSizes(w, h, target_size) ==
    IF IsWider(w, h, target_size)
    THEN {<<nw, target_size[2]>> :
            nw \in IntOfDouble(target_size[2] * w, h, RatioExact(w, h))}
    ELSE IF SameRatio(w, h, target_size)
         \* img_ratio is the same double as target_ratio, and
         \* 800 / (800/600) = 600.0, 1200 / (1200/800) = 800.0
         THEN {<<target_size[1], target_size[2]>>}
         ELSE {<<target_size[1], nh>> :
                 nh \in IntOfDouble(target_size[1] * h, w, RatioExact(w, h))}

\* CropBox with the right/bottom edge mirrored from the left/top one
\* (right = new_width - left) instead of left + target width.
CropBoxMirrored(wider, new_size, target_size) ==
    IF wider
    THEN LET left == (new_size[1] - target_size[1]) \div 2
         IN  <<left, 0, new_size[1] - left, target_size[2]>>
    ELSE LET top == (new_size[2] - target_size[2]) \div 2
         IN  <<0, top, target_size[1], new_size[2] - top>>

\* CropBox with the margin rounded up instead of down.
CropBoxCeil(wider, new_size, target_size) ==
    IF wider
    THEN LET left == (new_size[1] - target_size[1] + 1) \div 2
         IN  <<left, 0, left + target_size[1], target_size[2]>>
    ELSE LET top == (new_size[2] - target_size[2] + 1) \div 2
         IN  <<0, top, target_size[1], top + target_size[2]>>

\* Lines 44-47 and 57-60: (left, top, right, bottom).
CropBox(wider, new_size, target_size) ==
    IF wider
    THEN LET left == (new_size[1] - target_size[1]) \div 2
         IN  <<left, 0, left + target_size[1], target_size[2]>>
    ELSE LET top == (new_size[2] - target_size[2]) \div 2
         IN  <<0, top, target_size[1], top + target_size[2]>>

\* Image.crop: the result is as large as the box, whatever the image.
Crop(image, b) ==
    [width |-> b[3] - b[1], height |-> b[4] - b[2], mode |-> image.mode]

\* Lines 69-76: the sizes passed to img.resize in padding mode.
PadNewSizes(w, h, target_size) ==
    IF IsWider(w, h, target_size)
    THEN {<<target_size[1], nh>> :
            nh \in IntOfDouble(target_size[1] * h, w, RatioExact(w, h))}
    ELSE IF SameRatio(w, h, target_size)
         THEN {<<target_size[1], target_size[2]>>}
         ELSE {<<nw, target_size[2]>> :
                 nw \in IntOfDouble(target_size[2] * w, h, RatioExact(w, h))}

\* Lines 85-86: (x_offset, y_offset).
PadOffset(new_size, target_size) ==
    <<(target_size[1] - new_size[1]) \div 2, (target_size[2] - new_size[2]) \div 2>>

\* Lines 91-94: the format is chosen from the output path.
SaveFormat(ext) ==
    IF Lower(ext) = ".jpg" \/ Lower(ext) = ".jpeg" THEN "JPEG" ELSE "PNG"

\* Image.save raises OSError ("cannot write mode ... as ...") for a mode
\* the encoder does not take.
CanSave(format, mode) ==
    IF format = "JPEG"
    THEN mode \in {"1", "L", "RGB", "CMYK"}
    ELSE mode \in {"1", "L", "LA", "I", "P", "RGB", "RGBA"}


\* What a file on disk holds, as far as PIL and shutil can tell.
ImageData(ver, w, h, mode) ==
    [ver |-> ver, readable |-> TRUE, kind |-> "image",
     mode |-> mode, width |-> w, height |-> h]

GarbageData(ver) ==
    [ver |-> ver, readable |-> TRUE, kind |-> "garbage",
     mode |-> "", width |-> 0, height |-> 0]

UnreadableData(ver) ==
    [ver |-> ver, readable |-> FALSE, kind |-> "image",
     mode |-> "RGB", width |-> 4, height |-> 3]

\* Line 27: Image.open raises for a file it cannot read or identify.
CanOpen(file) == file.readable /\ file.kind = "image"

\* Lines 27-30: the image after open and the optional convert.
Opened(file) == [width |-> file.width, height |-> file.height, mode |-> file.mode]

Converted(image) == [image EXCEPT !.mode = ConvertMode(image.mode)]

\* Lines 32-88: the images final_img can be, from the converted image.
FinalImages(image, target_size, crop_mode) ==
    IF crop_mode
    THEN {Crop([width |-> ns[1], height |-> ns[2], mode |-> image.mode],
               CropBox(IsWider(image.width, image.height, target_size), ns, target_size)) :
            ns \in CropNewSizes(image.width, image.height, target_size)}
    ELSE {[width |-> target_size[1], height |-> target_size[2], mode |-> "RGB"]}

\* The file final_img.save writes.
Written(ver, image, format) ==
    [ver |-> ver, readable |-> TRUE, kind |-> "image", mode |-> image.mode,
     width |-> image.width, height |-> image.height, format |-> format]

\* Lines 26-99 as a whole: what a call of resize_image leaves at
\* output_path (None: the except arm printed an error, nothing written).
ResizeOutcomes(file, ext, target_size, crop_mode) ==
    IF ~CanOpen(file)
    THEN {None}
    ELSE {IF CanSave(SaveFormat(ext), f.mode)
          THEN Written(file.ver, f, SaveFormat(ext))
          ELSE None :
            f \in FinalImages(Converted(Opened(file)), target_size, crop_mode)}

IdleResize ==
    /\ rpc = "idle" /\ rin = None /\ img = None /\ branch = "none"
    /\ resized = None /\ box = None /\ final_img = None /\ rout = None

OutExts == {".jpg", ".JPEG", ".png", ".tiff"}

ResizeInputs ==
    {[file |-> f, ext |-> e, target_size |-> t, crop_mode |-> c] :
        f \in {ImageData(1, w, h, m) : w \in 1..MaxDim, h \in 1..MaxDim, m \in Modes}
              \cup {GarbageData(1), UnreadableData(1)},
        e \in OutExts, t \in {preview_size, slider_size}, c \in BOOLEAN}

\* Line 27.
ROpen ==
    /\ rpc = "call"
    /\ IF CanOpen(rin.file)
       THEN /\ img' = Opened(rin.file)
            /\ rpc' = "opened"
       ELSE /\ img' = img
            /\ rpc' = "error"
    /\ UNCHANGED <<rin, branch, resized, box, final_img, rout>>
    /\ UNCHANGED <<batchVars, viewVars>>

\* Lines 29-30.
RConvert ==
    /\ rpc = "opened"
    /\ img' = Converted(img)
    /\ rpc' = "converted"
    /\ UNCHANGED <<rin, branch, resized, box, final_img, rout>>
    /\ UNCHANGED <<batchVars, viewVars>>

\* Lines 32-62.
RCrop ==
    /\ rpc = "converted"
    /\ rin.crop_mode
    /\ \E ns \in CropNewSizes(img.width, img.height, rin.target_size) :
         LET wider == IsWider(img.width, img.height, rin.target_size)
             r == [width |-> ns[1], height |-> ns[2], mode |-> img.mode]
             b == CropBox(wider, ns, rin.target_size)
         IN  /\ branch' = IF wider THEN "wider" ELSE "taller"
             /\ resized' = r
             /\ box' = b
             /\ final_img' = Crop(r, b)
    /\ rpc' = "final"
    /\ UNCHANGED <<rin, img, rout>>
    /\ UNCHANGED <<batchVars, viewVars>>

\* Lines 63-88.
RPad ==
    /\ rpc = "converted"
    /\ ~rin.crop_mode
    /\ \E ns \in PadNewSizes(img.width, img.height, rin.target_size) :
         /\ branch' = IF IsWider(img.width, img.height, rin.target_size)
                      THEN "wider" ELSE "taller"
         /\ resized' = [width |-> ns[1], height |-> ns[2], mode |-> img.mode]
         /\ box' = PadOffset(ns, rin.target_size)
         /\ final_img' = [width |-> rin.target_size[1],
                          height |-> rin.target_size[2], mode |-> "RGB"]
    /\ rpc' = "final"
    /\ UNCHANGED <<rin, img, rout>>
    /\ UNCHANGED <<batchVars, viewVars>>

\* Lines 90-99.
RSave ==
    /\ rpc = "final"
    /\ IF CanSave(SaveFormat(rin.ext), final_img.mode)
       THEN /\ rout' = Written(rin.file.ver, final_img, SaveFormat(rin.ext))
            /\ rpc' = "saved"
       ELSE /\ rout' = rout
            /\ rpc' = "error"
    /\ UNCHANGED <<rin, img, branch, resized, box, final_img>>
    /\ UNCHANGED <<batchVars, viewVars>>


(***************************************************************************)
(* The file system                                                         *)
(***************************************************************************)
\* A file name is what os.path.splitext splits it into.
N(base, ext) == [base |-> base, ext |-> ext]

\* A path is the sequence of names below the working directory.
Dir == [type |-> "dir", data |-> None]
File(data) == [type |-> "file", data |-> data]

\* os.path.join
Join(dir, name) == Append(dir, name)

\* os.path.exists, os.path.isfile, os.path.isdir
Exists(f, p) == p \in DOMAIN f
IsFile(f, p) == p \in DOMAIN f /\ f[p].type = "file"
IsDir(f, p) == p \in DOMAIN f /\ f[p].type = "dir"

Parent(p) == SubSeq(p, 1, Len(p) - 1)

\* os.listdir
ListDir(f, dir) == {p[Len(p)] : p \in {q \in DOMAIN f : Len(q) = Len(dir) + 1 /\ Parent(q) = dir}}

\* The regular files directly in a directory, with their content.
TopFiles(f, dir) ==
    {<<p, f[p]>> : p \in {q \in DOMAIN f : Len(q) = Len(dir) + 1 /\ Parent(q) = dir
                                            /\ f[q].type = "file"}}

Put(f, p, node) == [q \in DOMAIN f \cup {p} |-> IF q = p THEN node ELSE f[q]]

\* os.makedirs(p, exist_ok=True): the file system afterwards, or None when
\* it raises (p or one of its ancestors is a regular file).
RECURSIVE MakeDirs(_, _)
MakeDirs(f, p) ==
    IF IsDir(f, p) THEN f
    ELSE IF IsFile(f, p) THEN None
    ELSE LET g == MakeDirs(f, Parent(p))
         IN  IF g = None THEN None ELSE Put(g, p, Dir)

(***************************************************************************)
(* process_portfolio_images and main                                       *)
(***************************************************************************)
image_extensions == {".jpg", ".jpeg", ".png", ".bmp", ".tiff", ".webp"}

PortfolioDir == <<N("portfolio", "")>>
MissingDir == <<N("nosuch", "")>>

backup_dir(portfolio_dir) == Join(portfolio_dir, N("backup_original", ""))
\* preview_dir that is the portfolio directory itself.
preview_dirFlat(portfolio_dir) == portfolio_dir

preview_dir(portfolio_dir) == Join(portfolio_dir, N("preview", ""))
slider_dir(portfolio_dir) == Join(portfolio_dir, N("slider", ""))

\* Lines 151-161.
preview_filename(filename) == N(filename.base \o "_preview", filename.ext)
slider_filename(filename) == N(filename.base \o "_slider", filename.ext)

preview_path(portfolio_dir, filename) ==
    Join(preview_dir(portfolio_dir), preview_filename(filename))
slider_path(portfolio_dir, filename) ==
    Join(slider_dir(portfolio_dir), slider_filename(filename))
backup_path(portfolio_dir, filename) ==
    Join(backup_dir(portfolio_dir), filename)

\* The image files the portfolio directory can hold, and what is in them.
SourceNames == {N("a", ".jpg"), N("b", ".PNG")}

SourceKinds(ver) ==
    {ImageData(ver, 4, 3, "RGB"), ImageData(ver, 22, 15, "CMYK"),
     GarbageData(ver), UnreadableData(ver)}

\* DirCheck without the test of line 176.
DirCheckSkipped(f, portfolio_dir) == TRUE

\* Lines 173-190 of main: parse the arguments, check the directory.
\* Line 176 alone: does main go on to process_portfolio_images?
DirCheck(f, portfolio_dir) == Exists(f, portfolio_dir)

MainStart(pd, nb) ==
    /\ pc \in {"idle", "done", "exit1", "crashed"}
    /\ runs < MaxRuns
    /\ runs' = runs + 1
    /\ args' = [portfolio_dir |-> pd, no_backup |-> nb]
    /\ logged' = {}
    /\ touched' = {}
    /\ todo' = {}
    /\ pc' = IF DirCheck(fs, pd) THEN "process" ELSE "exit1"
    /\ UNCHANGED fs
    /\ UNCHANGED <<resizeVars, viewVars>>

\* Lines 114-124: the file system after the three makedirs, None if one raises.
SetupDirs(f, portfolio_dir, backup) ==
    LET f1 == IF backup THEN MakeDirs(f, backup_dir(portfolio_dir)) ELSE f
        f2 == IF f1 = None THEN None ELSE MakeDirs(f1, preview_dir(portfolio_dir))
        f3 == IF f2 = None THEN None ELSE MakeDirs(f2, slider_dir(portfolio_dir))
    IN  [reached |-> IF f1 = None THEN f ELSE IF f2 = None THEN f1
                     ELSE IF f3 = None THEN f2 ELSE f3,
         ok |-> f1 # None /\ f2 # None /\ f3 # None]

\* Lines 110-132: create the directories and take the listing.
ProcessSetup ==
    /\ pc = "process"
    /\ LET s == SetupDirs(fs, args.portfolio_dir, ~args.no_backup)
       IN  /\ fs' = s.reached
           /\ touched' = touched \cup (DOMAIN s.reached \ DOMAIN fs)
           /\ IF s.ok
              THEN /\ todo' = ListDir(s.reached, args.portfolio_dir)
                   /\ pc' = "loop"
              ELSE /\ todo' = todo
                   /\ pc' = "crashed"
    /\ UNCHANGED <<args, logged, runs>>
    /\ UNCHANGED <<resizeVars, viewVars>>

\* BackupStep without the os.path.exists test of line 145.
BackupStepAlways(f, portfolio_dir, filename, backup) ==
    LET input_path == Join(portfolio_dir, filename)
        bp == backup_path(portfolio_dir, filename)
    IN  IF backup
        THEN IF f[input_path].data.readable
             THEN Put(f, bp, File(f[input_path].data))
             ELSE None
        ELSE f

\* Lines 143-148: the backup step of one iteration.  The file system
\* afterwards, or None when shutil.copy2 raises (nothing catches it).
BackupStep(f, portfolio_dir, filename, backup) ==
    LET input_path == Join(portfolio_dir, filename)
        bp == backup_path(portfolio_dir, filename)
    IN  IF backup /\ ~Exists(f, bp)
        THEN IF f[input_path].data.readable
             THEN Put(f, bp, File(f[input_path].data))
             ELSE None
        ELSE f

\* Lines 133-138: is this directory entry processed?
IsSource(f, portfolio_dir, filename) ==
    /\ IsFile(f, Join(portfolio_dir, filename))
    /\ Lower(filename.ext) \in image_extensions

\* Lines 132-138: the iterations that end in continue.  They change
\* nothing, so the ones still to come are taken in one step.
SkipEntries ==
    /\ pc = "loop"
    /\ \E filename \in todo : ~IsSource(fs, args.portfolio_dir, filename)
    /\ todo' = {filename \in todo : IsSource(fs, args.portfolio_dir, filename)}
    /\ UNCHANGED <<pc, args, fs, logged, touched, runs>>
    /\ UNCHANGED <<resizeVars, viewVars>>

\* Lines 132-162: one iteration of the for loop that gets past line 138.
ProcessFile(filename) ==
    /\ pc = "loop"
    /\ filename \in todo
    /\ IsSource(fs, args.portfolio_dir, filename)
    /\ todo' = todo \ {filename}
    /\ LET pd == args.portfolio_dir
           input_path == Join(pd, filename)
           f1 == BackupStep(fs, pd, filename, ~args.no_backup)
       IN  IF f1 = None
           THEN /\ pc' = "crashed"
                /\ UNCHANGED <<fs, logged, touched>>
           ELSE \E o1 \in ResizeOutcomes(f1[input_path].data, filename.ext,
                                         preview_size, TRUE) :
                LET f2 == IF o1 = None THEN f1
                          ELSE Put(f1, preview_path(pd, filename), File(o1))
                IN  \E o2 \in ResizeOutcomes(f2[input_path].data, filename.ext,
                                             slider_size, TRUE) :
                    LET f3 == IF o2 = None THEN f2
                              ELSE Put(f2, slider_path(pd, filename), File(o2))
                    IN  /\ fs' = f3
                        /\ logged' = logged
                             \cup (IF o1 = None THEN {<<filename, "preview">>} ELSE {})
                             \cup (IF o2 = None THEN {<<filename, "slider">>} ELSE {})
                        /\ touched' = touched
                             \cup (DOMAIN f1 \ DOMAIN fs)
                             \cup (IF o1 = None THEN {} ELSE {preview_path(pd, filename)})
                             \cup (IF o2 = None THEN {} ELSE {slider_path(pd, filename)})
                        /\ pc' = pc
    /\ UNCHANGED <<args, runs>>
    /\ UNCHANGED <<resizeVars, viewVars>>

\* Lines 192-202: the summary; main returns and the exit status is zero.
MainFinish ==
    /\ pc = "loop"
    /\ todo = {}
    /\ pc' = "done"
    /\ UNCHANGED <<args, fs, todo, logged, touched, runs>>
    /\ UNCHANGED <<resizeVars, viewVars>>

\* The process exit status: 0 when main returns, 1 after sys.exit(1) and
\* after an uncaught exception.
ExitStatus == CASE pc = "done" -> 0 [] pc \in {"exit1", "crashed"} -> 1 [] OTHER -> -1

\* The newest content version among the files of a directory.
LatestVer(f, dir) ==
    LET vs == {e[2].data.ver : e \in TopFiles(f, dir)}
    IN  IF vs = {} THEN 0 ELSE CHOOSE v \in vs : \A u \in vs : u <= v

\* Between two runs the owner replaces the content of a source image by a
\* new version.
ModifySource(filename, data) ==
    /\ pc \in {"done", "crashed"}
    /\ runs < MaxRuns
    /\ IsFile(fs, Join(PortfolioDir, filename))
    /\ data.ver = LatestVer(fs, PortfolioDir) + 1
    /\ fs' = Put(fs, Join(PortfolioDir, filename), File(data))
    /\ UNCHANGED <<pc, args, todo, logged, touched, runs>>
    /\ UNCHANGED <<resizeVars, viewVars>>

IdleBatch ==
    /\ pc = "idle" /\ args = None /\ fs = [p \in {<<>>} |-> Dir]
    /\ todo = {} /\ logged = {} /\ touched = {} /\ runs = 0

\* The working directory before the first run: portfolio is a directory
\* holding any of the source images, a text file and a subdirectory whose
\* name ends in .jpg; or portfolio is a regular file.
InitialFileSystems ==
    {[p \in {<<>>, PortfolioDir} |-> IF p = <<>> THEN Dir ELSE File(GarbageData(1))]}
    \cup
    {[p \in {<<>>, PortfolioDir, Join(PortfolioDir, N("notes", ".txt")),
             Join(PortfolioDir, N("album", ".jpg"))}
            \cup {Join(PortfolioDir, n) : n \in present} |->
        IF p = <<>> \/ p = PortfolioDir \/ p = Join(PortfolioDir, N("album", ".jpg"))
        THEN Dir
        ELSE IF p = Join(PortfolioDir, N("notes", ".txt"))
        THEN File(GarbageData(1))
        ELSE File(kind[p[2]])] :
        present \in SUBSET SourceNames, kind \in [SourceNames -> SourceKinds(1)]}


(***************************************************************************)
(* home/views.py                                                           *)
(***************************************************************************)
Fields == {"name", "email", "subject", "message"}
Values == {"v"}

\* The views that only render a template, and the template each renders.
StaticViews ==
    {"home", "project", "user_management_dashboard", "ancap_automation", "reroom",
     "insurance_call_simulator", "ocr_pdf_extractor", "survey_creator"}

Template(view) == view \o ".html"

\* render(request, template)
Render(template) == [rendered |-> template]

\* An exception that leaves the view.
Raised(what) == [raised |-> what]

\* Get as request.POST[key] guarded the wrong way: the default is lost.
GetNoDefault(post, key, default) == IF key \in DOMAIN post THEN post[key] ELSE "None"

\* request.POST.get(key, default)
Get(post, key, default) == IF key \in DOMAIN post THEN post[key] ELSE default

\* The bodies of the forms a client can submit: any subset of the fields.
Posts == UNION {[present -> Values] : present \in SUBSET Fields}

\* Lines 34-38: the row handed to Contact.objects.create.
ContactRow(post) ==
    [name |-> Get(post, "name", ""), email |-> Get(post, "email", ""),
     subject |-> Get(post, "subject", ""), message |-> Get(post, "message", "")]

\* ContactResponse with the return of line 39 indented into the if.
ContactResponseIndented(method, dbUp) ==
    IF method = "POST"
    THEN IF dbUp THEN Render("home.html") ELSE Raised("DatabaseError")
    ELSE None

\* Lines 33-39: what contact hands back.  Nothing catches an exception of
\* Contact.objects.create, so line 39 is not reached when it raises.
ContactResponse(method, dbUp) ==
    IF method = "POST" /\ ~dbUp THEN Raised("DatabaseError") ELSE Render("home.html")

\* home, project, ... , survey_creator.
StaticView(view) ==
    /\ served < MaxRequests
    /\ served' = served + 1
    /\ request' = [view |-> view, method |-> "GET", POST |-> <<>>, dbUp |-> TRUE]
    /\ response' = Render(Template(view))
    /\ UNCHANGED db
    /\ UNCHANGED <<resizeVars, batchVars>>

\* Lines 31-39.  dbUp: whether the database accepts the INSERT; when it
\* does not, Contact.objects.create raises and nothing catches it.
Contact(method, post, dbUp) ==
    /\ served < MaxRequests
    /\ served' = served + 1
    /\ request' = [view |-> "contact", method |-> method, POST |-> post, dbUp |-> dbUp]
    /\ db' = IF method = "POST" /\ dbUp THEN Append(db, ContactRow(post)) ELSE db
    /\ response' = ContactResponse(method, dbUp)
    /\ UNCHANGED <<resizeVars, batchVars>>

IdleViews == db = <<>> /\ request = None /\ response = None /\ served = 0

(***************************************************************************)
(* Specifications                                                          *)
(***************************************************************************)
InitResize ==
    /\ rpc = "call" /\ rin \in ResizeInputs /\ img = None /\ branch = "none"
    /\ resized = None /\ box = None /\ final_img = None /\ rout = None
    /\ IdleBatch /\ IdleViews

NextResize == ROpen \/ RConvert \/ RCrop \/ RPad \/ RSave

SpecResize == InitResize /\ [][NextResize]_vars

InitBatch ==
    /\ pc = "idle" /\ args = None /\ fs \in InitialFileSystems
    /\ todo = {} /\ logged = {} /\ touched = {} /\ runs = 0
    /\ IdleResize /\ IdleViews

NextBatch ==
    \/ \E pd \in {PortfolioDir, MissingDir}, nb \in BOOLEAN : MainStart(pd, nb)
    \/ ProcessSetup
    \/ SkipEntries
    \/ \E filename \in todo : ProcessFile(filename)
    \/ MainFinish
    \/ \E filename \in SourceNames, ver \in 1..MaxVer :
         \E data \in SourceKinds(ver) : ModifySource(filename, data)

SpecBatch == InitBatch /\ [][NextBatch]_vars

InitContact == IdleViews /\ IdleResize /\ IdleBatch

NextContact ==
    \/ \E view \in StaticViews : StaticView(view)
    \/ \E method \in {"GET", "POST"}, post \in Posts, dbUp \in BOOLEAN :
         Contact(method, post, dbUp)

SpecContact == InitContact /\ [][NextContact]_vars


(***************************************************************************)
(* Properties of resize_image (SpecResize)                                 *)
(***************************************************************************)

\* C1: in crop mode the file resize_image writes is exactly target_size[0]
\* wide and target_size[1] high, for both targets, on the wider branch, on
\* the taller branch and when the two aspect ratios are equal.
C1_ExactOutputSize ==
    (rpc = "saved" /\ rin.crop_mode) =>
        /\ rout.width = rin.target_size[1]
        /\ rout.height = rin.target_size[2]

\* C1 witness: a 22x15 source saved as preview; int(600 * (22/15)) gave 879.
C1_Witness ==
    /\ rpc = "saved" /\ rin.crop_mode /\ branch = "wider"
    /\ rin.target_size = preview_size
    /\ resized.width = 879
    /\ rout # None

\* C8: in crop mode the crop box lies inside the scaled image and is
\* centred: the margin before it and the margin after it differ by at most
\* one pixel, and the larger one is the one after (right or bottom).
C8_CenteredCrop ==
    (rpc \in {"final", "saved"} /\ rin.crop_mode) =>
        LET t == rin.target_size
        IN  IF branch = "wider"
            THEN /\ 0 <= box[1]
                 /\ box[1] + t[1] <= resized.width
                 /\ box[2] = 0 /\ box[4] = resized.height
                 /\ (resized.width - box[3]) - box[1] \in {0, 1}
            ELSE /\ branch = "taller"
                 /\ 0 <= box[2]
                 /\ box[2] + t[2] <= resized.height
                 /\ box[1] = 0 /\ box[3] = resized.width
                 /\ (resized.height - box[4]) - box[2] \in {0, 1}

\* C8 witness: the taller branch with an odd number of rows to trim.
C8_Witness ==
    /\ rpc = "final" /\ rin.crop_mode /\ branch = "taller"
    /\ (resized.height - rin.target_size[2]) % 2 = 1
    /\ box[2] > 0

\* C9 as claimed: the image handed to save is always in RGB mode.
C9_SavedImageIsRGB == rpc = "final" => final_img.mode = "RGB"

(***************************************************************************)
(* Properties of the batch job (SpecBatch)                                 *)
(***************************************************************************)
IsBackupPath(p) == Len(p) = 3 /\ p[2] = N("backup_original", "")

\* The source a backup path was copied from.
SourceOf(p) == Join(SubSeq(p, 1, Len(p) - 2), p[Len(p)])

\* The step condition of C2.
C2_Step ==
       /\ \A p \in DOMAIN fs :
            (IsBackupPath(p) /\ IsFile(fs, p)) => (p \in DOMAIN fs' /\ fs'[p] = fs[p])
       /\ \A p \in DOMAIN fs' \ DOMAIN fs :
            (IsBackupPath(p) /\ IsFile(fs', p)) =>
                (IsFile(fs, SourceOf(p)) /\ fs'[p].data = fs[SourceOf(p)].data)

\* C2: no step changes or removes a file that exists in backup_original/,
\* and a backup that appears holds the content its source has in that run.
C2_BackupNeverOverwritten == [][C2_Step]_vars

\* C2 witness: a second run with backup finished, after the source was
\* replaced; the backup still holds the first version.
C2_Witness ==
    /\ pc = "done" /\ runs = 2 /\ ~args.no_backup
    /\ args.portfolio_dir = PortfolioDir
    /\ \E n \in SourceNames :
         /\ IsFile(fs, Join(PortfolioDir, n))
         /\ fs[Join(PortfolioDir, n)].data.ver = 2
         /\ IsFile(fs, backup_path(PortfolioDir, n))
         /\ fs[backup_path(PortfolioDir, n)].data.ver = 1
         /\ IsFile(fs, preview_path(PortfolioDir, n))
         /\ fs[preview_path(PortfolioDir, n)].data.ver = 2

ValidImage == ImageData(1, 4, 3, "RGB")

\* C3 as claimed: after the first run on a directory holding a valid image
\* and a corrupt or unreadable one, the valid image has its preview and its
\* slider, in either listing order, with or without backup.
C3_ValidFileProcessed ==
    (pc \in {"done", "crashed"} /\ runs = 1 /\ args.portfolio_dir = PortfolioDir) =>
        \A n \in SourceNames, m \in SourceNames :
            ( /\ n # m
              /\ IsFile(fs, Join(PortfolioDir, n))
              /\ fs[Join(PortfolioDir, n)].data = ValidImage
              /\ IsFile(fs, Join(PortfolioDir, m))
              /\ ~CanOpen(fs[Join(PortfolioDir, m)].data) )
            => /\ IsFile(fs, preview_path(PortfolioDir, n))
               /\ IsFile(fs, slider_path(PortfolioDir, n))

\* C4 as claimed: when the portfolio directory exists, every failure is
\* caught, the loop visits every file and main ends with status zero.
C4_BatchAlwaysCompletes ==
    (args # None /\ IsDir(fs, args.portfolio_dir)) =>
        /\ pc # "crashed"
        /\ ExitStatus \in {0, -1}

\* C7: when --portfolio-dir names a path that does not exist, main exits
\* with a non-zero status before process_portfolio_images runs: nothing is
\* created or written, and none of the three subdirectories exists.
C7_MissingDirExits ==
    args # None =>
        /\ ~Exists(fs, args.portfolio_dir) => (pc = "exit1" /\ ExitStatus # 0)
        /\ pc = "exit1" =>
             /\ touched = {}
             /\ ~Exists(fs, args.portfolio_dir)
             /\ ~Exists(fs, backup_dir(args.portfolio_dir))
             /\ ~Exists(fs, preview_dir(args.portfolio_dir))
             /\ ~Exists(fs, slider_dir(args.portfolio_dir))

\* C7 witness: a run on the missing path, after an earlier run with backup.
C7_Witness ==
    /\ pc = "exit1" /\ args.portfolio_dir = MissingDir /\ ~args.no_backup
    /\ runs = 2
    /\ IsDir(fs, backup_dir(PortfolioDir))

Subdirs(portfolio_dir) ==
    {backup_dir(portfolio_dir), preview_dir(portfolio_dir), slider_dir(portfolio_dir)}

\* The step condition of C10.
C10_Step ==
       pc \in {"process", "loop"} =>
        LET pd == args.portfolio_dir
        IN  /\ TopFiles(fs', pd) = TopFiles(fs, pd)
            /\ \A p \in touched' :
                 \/ p \in Subdirs(pd)
                 \/ /\ Parent(p) \in Subdirs(pd)
                    /\ \E n \in ListDir(fs, pd) :
                         /\ IsSource(fs, pd, n)
                         /\ p \in {backup_path(pd, n), preview_path(pd, n),
                                   slider_path(pd, n)}

\* C10: no step of a run adds, removes or changes a top-level file of the
\* portfolio directory; everything the run creates or writes is one of the
\* three subdirectories or a file inside one, derived from a top-level
\* source file.
C10_SourcesUntouched == [][C10_Step]_vars

\* C10 witness: a second run has rewritten the derivatives of both sources.
C10_Witness ==
    /\ pc = "done" /\ runs = 2
    /\ preview_path(PortfolioDir, N("a", ".jpg")) \in touched
    /\ slider_path(PortfolioDir, N("b", ".PNG")) \in touched
    /\ Cardinality(ListDir(fs, preview_dir(PortfolioDir))) = 2

(***************************************************************************)
(* Properties of the views (SpecContact)                                   *)
(***************************************************************************)

\* C5 as claimed: contact always hands back the home page.
C5_AlwaysHomePage ==
    (request # None /\ request.view = "contact") => response = Render("home.html")

\* The step condition of C5.
C5_Step ==
       (served' = served + 1 /\ request'.view = "contact") =>
        IF request'.method = "POST" /\ ~request'.dbUp
        THEN response' = Raised("DatabaseError") /\ db' = db
        ELSE response' = Render("home.html")

\* C5 amended: contact hands back the home page for a request that is not a
\* POST and for a POST whose row is stored; when the INSERT fails the
\* exception leaves the view, no page is returned and no row is added.
C5_HomePageUnlessInsertFails == [][C5_Step]_vars

\* C5 witness: a POST whose INSERT failed.
C5_Witness ==
    /\ request # None /\ request.view = "contact"
    /\ request.method = "POST" /\ ~request.dbUp
    /\ response = Raised("DatabaseError")

\* The step condition of C6.
C6_Step ==
       (served' = served + 1 /\ request'.view = "contact"
        /\ request'.method = "POST" /\ request'.dbUp) =>
        /\ Len(db') = Len(db) + 1
        /\ SubSeq(db', 1, Len(db)) = db
        /\ \A f \in Fields :
             db'[Len(db')][f] = IF f \in DOMAIN request'.POST
                                THEN request'.POST[f] ELSE ""
        /\ response' = Render("home.html")

\* C6: a POST to contact whose INSERT the database accepts adds exactly one
\* row; in it every field missing from the form is "" and every field
\* present has the submitted value; the view then returns its page, for
\* every subset of missing fields.
C6_MissingFieldsDefault == [][C6_Step]_vars

\* C6 witness: a form with two of the four fields missing was stored.
C6_Witness ==
    /\ request # None /\ request.view = "contact" /\ request.method = "POST"
    /\ request.dbUp /\ DOMAIN request.POST = {"name", "message"}
    /\ Len(db) = 2
    /\ db[2] = [name |-> "v", email |-> "", subject |-> "", message |-> "v"]

====
